---- MODULE Spec2Model ----
(***************************************************************************)
(* The AST node classes of src/ast.py: construction, children(), __iter__,  *)
(* __repr__, show() and the annotation slots, as a state machine over one   *)
(* node under construction and inspection.                                  *)
(*                                                                          *)
(* Python values are tagged records: None, str (a sequence of characters),  *)
(* int, list, Coord objects and Node objects.  A Node object is             *)
(* [t |-> "node", kind |-> class name, f |-> slot name -> value]; a slot     *)
(* that was never assigned is absent from DOMAIN f.  A call returns         *)
(* [exc |-> "none", v |-> value], or [exc |-> exception name] when it raises.*)
(***************************************************************************)
EXTENDS Integers, Sequences, FiniteSets, TLC

VARIABLES node, op, result, writes

vars == <<node, op, result, writes>>

----------------------------------------------------------------------------
(* Python values *)

None == [t |-> "None"]
Str(s) == [t |-> "str", s |-> s]
PyInt(i) == [t |-> "int", i |-> i]
List(e) == [t |-> "list", e |-> e]

Ok(v) == [exc |-> "none", v |-> v]
Raise(e) == [exc |-> e, v |-> <<>>]
Raised(r) == r.exc # "none"

\* Truth value of an object: None, 0, '' and [] are false; an object of a class
\* that defines neither __bool__ nor __len__ (Node, Coord) is true.
bool(v) ==
  CASE v.t = "None" -> FALSE
    [] v.t = "list" -> v.e # <<>>
    [] v.t = "str" -> v.s # <<>>
    [] v.t = "int" -> v.i # 0
    [] OTHER -> TRUE

\* `x or []`
Or(v, d) == IF bool(v) THEN v ELSE d

\* An exception ends the call: what follows runs on the value of r only when r did
\* not raise
Then(r, F(_)) == IF Raised(r) THEN r ELSE F(r.v)

\* Statements run in order: the first one that raises ends the call, otherwise
\* what they appended/yielded is joined in order.
RECURSIVE Collect(_)
Collect(steps) ==
  IF steps = <<>> THEN Ok(<<>>)
  ELSE Then(Head(steps), LAMBDA h :
         Then(Collect(Tail(steps)), LAMBDA t : Ok(h \o t)))

Digit == <<"0", "1", "2", "3", "4", "5", "6", "7", "8", "9">>

\* '%d' % i / str(i) for i >= 0, as a string
RECURSIVE IntStr(_)
IntStr(i) == IF i < 10 THEN Digit[i + 1] ELSE IntStr(i \div 10) \o Digit[(i % 10) + 1]

\* Binding of a call's positional arguments to the parameters of __init__ (self
\* left out): the first nreq parameters have no default, every other one defaults
\* to None; too few or too many arguments raise TypeError.
Bind(params, nreq, args) ==
  IF Len(args) < nreq \/ Len(args) > Len(params) THEN Raise("TypeError")
  ELSE Ok([p \in {params[i] : i \in 1..Len(params)} |->
            LET i == CHOOSE j \in 1..Len(params) : params[j] = p
            IN IF i <= Len(args) THEN args[i] ELSE None])

\* str.split(sep) for a one-character sep; only str has the method
RECURSIVE pieces(_, _, _)
pieces(s, sep, cur) ==
  IF s = <<>> THEN <<Str(cur)>>
  ELSE IF Head(s) = sep THEN <<Str(cur)>> \o pieces(Tail(s), sep, <<>>)
  ELSE pieces(Tail(s), sep, Append(cur, Head(s)))

split(v, sep) ==
  IF v.t = "str" THEN Ok(List(pieces(v.s, sep.s[1], <<>>))) ELSE Raise("AttributeError")

\* r[0] and r + s on the outcome r of the expression before them
Index0(r) == Then(r, LAMBDA l : Ok(l.e[1]))
Add(r, s) == Then(r, LAMBDA a : Ok(Str(a.s \o s.s)))

\* `if self.X is not None: nodelist.append(("X", self.X))`
IfNotNoneAppend(name, v) == Ok(IF v # None THEN <<[name |-> name, child |-> v]>> ELSE <<>>)

\* `if self.X is not None: yield self.X`
IfNotNoneYield(v) == Ok(IF v # None THEN <<v>> ELSE <<>>)

RECURSIVE iter(_)

\* `for i, child in enumerate(self.X or []): nodelist.append(("X[%d]" % i, child))`
ForEnumerateAppend(name, v) ==
  Then(iter(Or(v, List(<<>>))), LAMBDA it :
    Ok([i \in 1..Len(it) |->
         [name |-> name \o "[" \o IntStr(i - 1) \o "]", child |-> it[i]]]))

\* The same loop with `if child is not None:` around the append (Print.children)
ForEnumerateAppendNotNone(name, v) ==
  Then(ForEnumerateAppend(name, v), LAMBDA all :
    Ok(SelectSeq(all, LAMBDA p : p.child # None)))

\* `for i in (self.X or []): yield i`
ForYield(v) == iter(Or(v, List(<<>>)))

\* `for i in enumerate(self.X or []): yield child` : `child` is not defined, so the
\* first pass through the loop body raises NameError
ForEnumerateYieldUndefined(v) ==
  Then(iter(Or(v, List(<<>>))), LAMBDA it :
    IF it = <<>> THEN Ok(<<>>) ELSE Raise("NameError"))

\* What a generator function returns; a method whose body has no yield returns
\* None instead.
Generator(r) == [t |-> "generator", r |-> r]

\* A generator run to its end; what is no iterator cannot be iterated
Consume(g) == IF g.t = "generator" THEN g.r ELSE Raise("TypeError")

Kinds ==
  {"Program", "Constant", "Cast", "Type", "GlobalDecl", "FuncDecl",
   "FuncDef", "FuncCall", "VarDecl", "Decl", "PtrDecl", "ArrayRef",
   "ArrayDecl", "DeclList", "InitList", "ExprList", "ParamList", "UnaryOp",
   "BinaryOp", "Assignment", "Compound", "EmptyStatement", "Break", "Assert",
   "For", "While", "Return", "ID", "Print", "Read",
   "If"}

\* __slots__ of each class: a tuple of names, or (EmptyStatement, Break) a bare
\* string, which declares the one slot it spells but indexes character by character
__slots__(k) ==
  CASE k = "Program" -> [t |-> "tuple", e |-> <<"gdecls", "symtab", "coord">>]
    [] k = "Constant" -> [t |-> "tuple", e |-> <<"type", "value", "coord", "rawtype", "gen_location">>]
    [] k = "Cast" -> [t |-> "tuple", e |-> <<"cast", "expression", "coord", "type", "gen_location">>]
    [] k = "Type" -> [t |-> "tuple", e |-> <<"names", "coord">>]
    [] k = "GlobalDecl" -> [t |-> "tuple", e |-> <<"decls", "coord">>]
    [] k = "FuncDecl" -> [t |-> "tuple", e |-> <<"params", "type", "coord", "gen_location">>]
    [] k = "FuncDef" -> [t |-> "tuple", e |-> <<"spec", "decl", "param_decls", "body", "coord", "decls">>]
    [] k = "FuncCall" -> [t |-> "tuple", e |-> <<"name", "params", "coord", "type", "gen_location">>]
    [] k = "VarDecl" -> [t |-> "tuple", e |-> <<"declname", "type", "coord", "gen_location">>]
    [] k = "Decl" -> [t |-> "tuple", e |-> <<"name", "type", "init", "coord">>]
    [] k = "PtrDecl" -> [t |-> "tuple", e |-> <<"type", "coord">>]
    [] k = "ArrayRef" -> [t |-> "tuple", e |-> <<"name", "subscript", "coord", "bind", "type", "model", "gen_location">>]
    [] k = "ArrayDecl" -> [t |-> "tuple", e |-> <<"type", "tam", "coord">>]
    [] k = "DeclList" -> [t |-> "tuple", e |-> <<"decls", "coord">>]
    [] k = "InitList" -> [t |-> "tuple", e |-> <<"expression", "coord", "value", "gen_location">>]
    [] k = "ExprList" -> [t |-> "tuple", e |-> <<"expression", "coord">>]
    [] k = "ParamList" -> [t |-> "tuple", e |-> <<"params", "coord">>]
    [] k = "UnaryOp" -> [t |-> "tuple", e |-> <<"op", "expression", "coord", "gen_location", "type">>]
    [] k = "BinaryOp" -> [t |-> "tuple", e |-> <<"op", "left_val", "right_val", "coord", "type", "gen_location">>]
    [] k = "Assignment" -> [t |-> "tuple", e |-> <<"op", "value1", "value2", "coord">>]
    [] k = "Compound" -> [t |-> "tuple", e |-> <<"block_items", "coord">>]
    [] k = "EmptyStatement" -> Str(<<"c", "o", "o", "r", "d">>)
    [] k = "Break" -> Str(<<"c", "o", "o", "r", "d">>)
    [] k = "Assert" -> [t |-> "tuple", e |-> <<"expression", "coord">>]
    [] k = "For" -> [t |-> "tuple", e |-> <<"initial", "cond", "next", "statement", "coord", "label_exit">>]
    [] k = "While" -> [t |-> "tuple", e |-> <<"cond", "statement", "coord", "label_exit">>]
    [] k = "Return" -> [t |-> "tuple", e |-> <<"expression", "coord">>]
    [] k = "ID" -> [t |-> "tuple", e |-> <<"name", "coord", "type", "bind", "scope", "gen_location", "model">>]
    [] k = "Print" -> [t |-> "tuple", e |-> <<"expression", "coord">>]
    [] k = "Read" -> [t |-> "tuple", e |-> <<"expression", "coord">>]
    [] k = "If" -> [t |-> "tuple", e |-> <<"cond", "true", "false", "coord">>]

\* The parameters of __init__, self left out
Params(k) ==
  CASE k = "Program" -> <<"gdecls", "symtab", "coord">>
    [] k = "Constant" -> <<"type", "value", "coord">>
    [] k = "Cast" -> <<"cast", "expression", "coord">>
    [] k = "Type" -> <<"names", "coord">>
    [] k = "GlobalDecl" -> <<"decls", "coord">>
    [] k = "FuncDecl" -> <<"params", "type", "coord">>
    [] k = "FuncDef" -> <<"spec", "decl", "param_decls", "body", "coord">>
    [] k = "FuncCall" -> <<"name", "params", "coord">>
    [] k = "VarDecl" -> <<"declname", "type", "coord">>
    [] k = "Decl" -> <<"name", "type", "init", "coord">>
    [] k = "PtrDecl" -> <<"type", "coord">>
    [] k = "ArrayRef" -> <<"name", "subscript", "coord">>
    [] k = "ArrayDecl" -> <<"type", "tam", "coord">>
    [] k = "DeclList" -> <<"decls", "coord">>
    [] k = "InitList" -> <<"expression", "coord">>
    [] k = "ExprList" -> <<"expression", "coord">>
    [] k = "ParamList" -> <<"params", "coord">>
    [] k = "UnaryOp" -> <<"op", "expression", "coord">>
    [] k = "BinaryOp" -> <<"op", "left_val", "right_val", "coord">>
    [] k = "Assignment" -> <<"op", "value1", "value2", "coord">>
    [] k = "Compound" -> <<"block_items", "coord">>
    [] k = "EmptyStatement" -> <<"coord">>
    [] k = "Break" -> <<"coord">>
    [] k = "Assert" -> <<"expression", "coord">>
    [] k = "For" -> <<"initial", "cond", "next", "statement", "coord">>
    [] k = "While" -> <<"cond", "statement", "coord">>
    [] k = "Return" -> <<"expression", "coord">>
    [] k = "ID" -> <<"name", "coord">>
    [] k = "Print" -> <<"expression", "coord">>
    [] k = "Read" -> <<"expression", "coord">>
    [] k = "If" -> <<"cond", "true", "false", "coord">>

\* What the class does with each constructor argument: children() appends it as one
\* child ("node"), children() enumerates it ("list"), it is the coordinate, or it is
\* a plain attribute
Use(k) ==
  CASE k = "Program" -> [gdecls |-> "list", symtab |-> "attr", coord |-> "coord"]
    [] k = "Constant" -> [type |-> "attr", value |-> "attr", coord |-> "coord"]
    [] k = "Cast" -> [cast |-> "node", expression |-> "node", coord |-> "coord"]
    [] k = "Type" -> [names |-> "attr", coord |-> "coord"]
    [] k = "GlobalDecl" -> [decls |-> "list", coord |-> "coord"]
    [] k = "FuncDecl" -> [params |-> "node", type |-> "node", coord |-> "coord"]
    [] k = "FuncDef" -> [spec |-> "node", decl |-> "node", param_decls |-> "list", body |-> "node", coord |-> "coord"]
    [] k = "FuncCall" -> [name |-> "node", params |-> "node", coord |-> "coord"]
    [] k = "VarDecl" -> [declname |-> "attr", type |-> "node", coord |-> "coord"]
    [] k = "Decl" -> [name |-> "attr", type |-> "node", init |-> "node", coord |-> "coord"]
    [] k = "PtrDecl" -> [type |-> "node", coord |-> "coord"]
    [] k = "ArrayRef" -> [name |-> "node", subscript |-> "node", coord |-> "coord"]
    [] k = "ArrayDecl" -> [type |-> "node", tam |-> "node", coord |-> "coord"]
    [] k = "DeclList" -> [decls |-> "list", coord |-> "coord"]
    [] k = "InitList" -> [expression |-> "list", coord |-> "coord"]
    [] k = "ExprList" -> [expression |-> "list", coord |-> "coord"]
    [] k = "ParamList" -> [params |-> "list", coord |-> "coord"]
    [] k = "UnaryOp" -> [op |-> "attr", expression |-> "node", coord |-> "coord"]
    [] k = "BinaryOp" -> [op |-> "attr", left_val |-> "node", right_val |-> "node", coord |-> "coord"]
    [] k = "Assignment" -> [op |-> "attr", value1 |-> "node", value2 |-> "node", coord |-> "coord"]
    [] k = "Compound" -> [block_items |-> "list", coord |-> "coord"]
    [] k = "EmptyStatement" -> [coord |-> "coord"]
    [] k = "Break" -> [coord |-> "coord"]
    [] k = "Assert" -> [expression |-> "node", coord |-> "coord"]
    [] k = "For" -> [initial |-> "node", cond |-> "node", next |-> "node", statement |-> "node", coord |-> "coord"]
    [] k = "While" -> [cond |-> "node", statement |-> "node", coord |-> "coord"]
    [] k = "Return" -> [expression |-> "node", coord |-> "coord"]
    [] k = "ID" -> [name |-> "attr", coord |-> "coord"]
    [] k = "Print" -> [expression |-> "list", coord |-> "coord"]
    [] k = "Read" -> [expression |-> "list", coord |-> "coord"]
    [] k = "If" -> [cond |-> "node", true |-> "node", false |-> "node", coord |-> "coord"]

attr_names(k) ==
  CASE k = "Program" -> <<>>
    [] k = "Constant" -> <<"type", "value">>
    [] k = "Cast" -> <<>>
    [] k = "Type" -> <<"names">>
    [] k = "GlobalDecl" -> <<>>
    [] k = "FuncDecl" -> <<>>
    [] k = "FuncDef" -> <<>>
    [] k = "FuncCall" -> <<>>
    [] k = "VarDecl" -> <<>>
    [] k = "Decl" -> <<"name">>
    [] k = "PtrDecl" -> <<>>
    [] k = "ArrayRef" -> <<>>
    [] k = "ArrayDecl" -> <<>>
    [] k = "DeclList" -> <<>>
    [] k = "InitList" -> <<>>
    [] k = "ExprList" -> <<>>
    [] k = "ParamList" -> <<>>
    [] k = "UnaryOp" -> <<"op">>
    [] k = "BinaryOp" -> <<"op">>
    [] k = "Assignment" -> <<"op">>
    [] k = "Compound" -> <<>>
    [] k = "EmptyStatement" -> <<>>
    [] k = "Break" -> <<>>
    [] k = "Assert" -> <<>>
    [] k = "For" -> <<>>
    [] k = "While" -> <<>>
    [] k = "Return" -> <<>>
    [] k = "ID" -> <<"name">>
    [] k = "Print" -> <<>>
    [] k = "Read" -> <<>>
    [] k = "If" -> <<>>

----------------------------------------------------------------------------
(* The classes *)

\* Program.__init__ storing the symtab it is given
Program_init_stored(args) ==
  Then(Bind(Params("Program"), 1, args), LAMBDA a :
    Ok([gdecls |-> a.gdecls,
        symtab |-> a.symtab,
        coord |-> a.coord]))

Program_init(args) ==
  Then(Bind(Params("Program"), 1, args), LAMBDA a :
    Ok([gdecls |-> a.gdecls,
        symtab |-> None,
        coord |-> a.coord]))

Program_children(self) ==
  Collect(<<ForEnumerateAppend("gdecls", self.f.gdecls)>>)

Program_iter(self) ==
  Generator(Collect(<<ForYield(self.f.gdecls)>>))

Constant_init(args) ==
  Then(Bind(Params("Constant"), 2, args), LAMBDA a :
    Ok([type |-> a.type,
        value |-> a.value,
        coord |-> a.coord,
        rawtype |-> a.type,
        gen_location |-> None]))

Constant_children(self) ==
  Collect(<<>>)

Constant_iter(self) ==
  None

\* Cast.__init__ keeping the cast in type
Cast_init_typed(args) ==
  Then(Bind(Params("Cast"), 2, args), LAMBDA a :
    Ok([cast |-> a.cast,
        expression |-> a.expression,
        coord |-> a.coord,
        type |-> a.cast,
        gen_location |-> None]))

Cast_init(args) ==
  Then(Bind(Params("Cast"), 2, args), LAMBDA a :
    Ok([cast |-> a.cast,
        expression |-> a.expression,
        coord |-> a.coord,
        type |-> None,
        gen_location |-> None]))

Cast_children(self) ==
  Collect(<<IfNotNoneAppend("cast", self.f.cast),
            IfNotNoneAppend("expression", self.f.expression)>>)

Cast_iter(self) ==
  Generator(Collect(<<IfNotNoneYield(self.f.cast),
                      IfNotNoneYield(self.f.expression)>>))

Type_init(args) ==
  Then(Bind(Params("Type"), 1, args), LAMBDA a :
    Ok([names |-> a.names,
        coord |-> a.coord]))

Type_children(self) ==
  Collect(<<>>)

Type_iter(self) ==
  None

GlobalDecl_init(args) ==
  Then(Bind(Params("GlobalDecl"), 1, args), LAMBDA a :
    Ok([decls |-> a.decls,
        coord |-> a.coord]))

GlobalDecl_children(self) ==
  Collect(<<ForEnumerateAppend("decls", self.f.decls)>>)

GlobalDecl_iter(self) ==
  Generator(Collect(<<ForYield(self.f.decls)>>))

FuncDecl_init(args) ==
  Then(Bind(Params("FuncDecl"), 2, args), LAMBDA a :
    Ok([params |-> a.params,
        type |-> a.type,
        coord |-> a.coord,
        gen_location |-> None]))

FuncDecl_children(self) ==
  Collect(<<IfNotNoneAppend("params", self.f.params),
            IfNotNoneAppend("type", self.f.type)>>)

FuncDecl_iter(self) ==
  Generator(Collect(<<IfNotNoneYield(self.f.params),
                      IfNotNoneYield(self.f.type)>>))

FuncDef_init(args) ==
  Then(Bind(Params("FuncDef"), 4, args), LAMBDA a :
    Ok([spec |-> a.spec,
        decl |-> a.decl,
        param_decls |-> a.param_decls,
        body |-> a.body,
        coord |-> a.coord,
        decls |-> None]))

FuncDef_children(self) ==
  Collect(<<IfNotNoneAppend("spec", self.f.spec),
            IfNotNoneAppend("decl", self.f.decl),
            IfNotNoneAppend("body", self.f.body),
            ForEnumerateAppend("param_decls", self.f.param_decls)>>)

FuncDef_iter(self) ==
  Generator(Collect(<<IfNotNoneYield(self.f.spec),
                      IfNotNoneYield(self.f.decl),
                      IfNotNoneYield(self.f.body),
                      ForYield(self.f.param_decls)>>))

FuncCall_init(args) ==
  Then(Bind(Params("FuncCall"), 2, args), LAMBDA a :
    Ok([name |-> a.name,
        params |-> a.params,
        coord |-> a.coord,
        type |-> None,
        gen_location |-> None]))

FuncCall_children(self) ==
  Collect(<<IfNotNoneAppend("name", self.f.name),
            IfNotNoneAppend("params", self.f.params)>>)

FuncCall_iter(self) ==
  Generator(Collect(<<IfNotNoneYield(self.f.name),
                      IfNotNoneYield(self.f.params)>>))

VarDecl_init(args) ==
  Then(Bind(Params("VarDecl"), 2, args), LAMBDA a :
    Ok([declname |-> a.declname,
        type |-> a.type,
        coord |-> a.coord,
        gen_location |-> None]))

VarDecl_children(self) ==
  Collect(<<IfNotNoneAppend("type", self.f.type)>>)

VarDecl_iter(self) ==
  Generator(Collect(<<IfNotNoneYield(self.f.type)>>))

Decl_init(args) ==
  Then(Bind(Params("Decl"), 3, args), LAMBDA a :
    Ok([name |-> a.name,
        type |-> a.type,
        init |-> a.init,
        coord |-> a.coord]))

Decl_children(self) ==
  Collect(<<IfNotNoneAppend("type", self.f.type),
            IfNotNoneAppend("init", self.f.init)>>)

Decl_iter(self) ==
  Generator(Collect(<<IfNotNoneYield(self.f.type),
                      IfNotNoneYield(self.f.init)>>))

PtrDecl_init(args) ==
  Then(Bind(Params("PtrDecl"), 1, args), LAMBDA a :
    Ok([type |-> a.type,
        coord |-> a.coord]))

PtrDecl_children(self) ==
  Collect(<<IfNotNoneAppend("type", self.f.type)>>)

PtrDecl_iter(self) ==
  Generator(Collect(<<IfNotNoneYield(self.f.type)>>))

ArrayRef_init(args) ==
  Then(Bind(Params("ArrayRef"), 2, args), LAMBDA a :
    Ok([name |-> a.name,
        subscript |-> a.subscript,
        coord |-> a.coord,
        bind |-> None,
        type |-> None,
        model |-> None,
        gen_location |-> None]))

ArrayRef_children(self) ==
  Collect(<<IfNotNoneAppend("name", self.f.name),
            IfNotNoneAppend("subscript", self.f.subscript)>>)

ArrayRef_iter(self) ==
  Generator(Collect(<<IfNotNoneYield(self.f.name),
                      IfNotNoneYield(self.f.subscript)>>))

ArrayDecl_init(args) ==
  Then(Bind(Params("ArrayDecl"), 2, args), LAMBDA a :
    Ok([type |-> a.type,
        tam |-> a.tam,
        coord |-> a.coord]))

ArrayDecl_children(self) ==
  Collect(<<IfNotNoneAppend("type", self.f.type),
            IfNotNoneAppend("tam", self.f.tam)>>)

ArrayDecl_iter(self) ==
  Generator(Collect(<<IfNotNoneYield(self.f.type),
                      IfNotNoneYield(self.f.tam)>>))

DeclList_init(args) ==
  Then(Bind(Params("DeclList"), 1, args), LAMBDA a :
    Ok([decls |-> a.decls,
        coord |-> a.coord]))

DeclList_children(self) ==
  Collect(<<ForEnumerateAppend("decls", self.f.decls)>>)

DeclList_iter(self) ==
  Generator(Collect(<<ForEnumerateYieldUndefined(self.f.decls)>>))

InitList_init(args) ==
  Then(Bind(Params("InitList"), 1, args), LAMBDA a :
    Ok([expression |-> a.expression,
        coord |-> a.coord,
        value |-> None,
        gen_location |-> None]))

InitList_children(self) ==
  Collect(<<ForEnumerateAppend("expression", self.f.expression)>>)

InitList_iter(self) ==
  Generator(Collect(<<ForYield(self.f.expression)>>))

ExprList_init(args) ==
  Then(Bind(Params("ExprList"), 1, args), LAMBDA a :
    Ok([expression |-> a.expression,
        coord |-> a.coord]))

ExprList_children(self) ==
  Collect(<<ForEnumerateAppend("expression", self.f.expression)>>)

ExprList_iter(self) ==
  Generator(Collect(<<ForYield(self.f.expression)>>))

ParamList_init(args) ==
  Then(Bind(Params("ParamList"), 1, args), LAMBDA a :
    Ok([params |-> a.params,
        coord |-> a.coord]))

ParamList_children(self) ==
  Collect(<<ForEnumerateAppend("params", self.f.params)>>)

ParamList_iter(self) ==
  Generator(Collect(<<ForYield(self.f.params)>>))

UnaryOp_init(args) ==
  Then(Bind(Params("UnaryOp"), 2, args), LAMBDA a :
    Ok([op |-> a.op,
        expression |-> a.expression,
        coord |-> a.coord,
        gen_location |-> None,
        type |-> None]))

UnaryOp_children(self) ==
  Collect(<<IfNotNoneAppend("expression", self.f.expression)>>)

UnaryOp_iter(self) ==
  Generator(Collect(<<IfNotNoneYield(self.f.expression)>>))

BinaryOp_init(args) ==
  Then(Bind(Params("BinaryOp"), 3, args), LAMBDA a :
    Ok([op |-> a.op,
        left_val |-> a.left_val,
        right_val |-> a.right_val,
        coord |-> a.coord,
        type |-> None,
        gen_location |-> None]))

BinaryOp_children(self) ==
  Collect(<<IfNotNoneAppend("left_val", self.f.left_val),
            IfNotNoneAppend("right_val", self.f.right_val)>>)

BinaryOp_iter(self) ==
  Generator(Collect(<<IfNotNoneYield(self.f.left_val),
                      IfNotNoneYield(self.f.right_val)>>))

Assignment_init(args) ==
  Then(Bind(Params("Assignment"), 3, args), LAMBDA a :
    Ok([op |-> a.op,
        value1 |-> a.value1,
        value2 |-> a.value2,
        coord |-> a.coord]))

Assignment_children(self) ==
  Collect(<<IfNotNoneAppend("value1", self.f.value1),
            IfNotNoneAppend("value2", self.f.value2)>>)

Assignment_iter(self) ==
  Generator(Collect(<<IfNotNoneYield(self.f.value1),
                      IfNotNoneYield(self.f.value2)>>))

Compound_init(args) ==
  Then(Bind(Params("Compound"), 1, args), LAMBDA a :
    Then(Add(Index0(split(a.coord, Str(<<":">>))), Str(<<":", "1">>)), LAMBDA c :
      Ok([block_items |-> a.block_items,
        coord |-> c])))

Compound_children(self) ==
  Collect(<<ForEnumerateAppend("block_items", self.f.block_items)>>)

Compound_iter(self) ==
  Generator(Collect(<<ForYield(self.f.block_items)>>))

EmptyStatement_init(args) ==
  Then(Bind(Params("EmptyStatement"), 0, args), LAMBDA a :
    Ok([coord |-> a.coord]))

EmptyStatement_children(self) ==
  Collect(<<>>)

EmptyStatement_iter(self) ==
  None

Break_init(args) ==
  Then(Bind(Params("Break"), 0, args), LAMBDA a :
    Ok([coord |-> a.coord]))

Break_children(self) ==
  Collect(<<>>)

Break_iter(self) ==
  None

Assert_init(args) ==
  Then(Bind(Params("Assert"), 1, args), LAMBDA a :
    Ok([expression |-> a.expression,
        coord |-> a.coord]))

Assert_children(self) ==
  Collect(<<IfNotNoneAppend("expression", self.f.expression)>>)

Assert_iter(self) ==
  Generator(Collect(<<IfNotNoneYield(self.f.expression)>>))

For_init(args) ==
  Then(Bind(Params("For"), 4, args), LAMBDA a :
    Ok([initial |-> a.initial,
        cond |-> a.cond,
        next |-> a.next,
        statement |-> a.statement,
        coord |-> a.coord,
        label_exit |-> None]))

For_children(self) ==
  Collect(<<IfNotNoneAppend("initial", self.f.initial),
            IfNotNoneAppend("cond", self.f.cond),
            IfNotNoneAppend("next", self.f.next),
            IfNotNoneAppend("statement", self.f.statement)>>)

For_iter(self) ==
  Generator(Collect(<<IfNotNoneYield(self.f.initial),
                      IfNotNoneYield(self.f.cond),
                      IfNotNoneYield(self.f.next),
                      IfNotNoneYield(self.f.statement)>>))

While_init(args) ==
  Then(Bind(Params("While"), 3, args), LAMBDA a :
    Ok([cond |-> a.cond,
        statement |-> a.statement,
        coord |-> a.coord,
        label_exit |-> None]))

While_children(self) ==
  Collect(<<IfNotNoneAppend("cond", self.f.cond),
            IfNotNoneAppend("statement", self.f.statement)>>)

While_iter(self) ==
  Generator(Collect(<<IfNotNoneYield(self.f.cond),
                      IfNotNoneYield(self.f.statement)>>))

Return_init(args) ==
  Then(Bind(Params("Return"), 1, args), LAMBDA a :
    Ok([expression |-> a.expression,
        coord |-> a.coord]))

Return_children(self) ==
  Collect(<<IfNotNoneAppend("expression", self.f.expression)>>)

Return_iter(self) ==
  Generator(Collect(<<IfNotNoneYield(self.f.expression)>>))

ID_init(args) ==
  Then(Bind(Params("ID"), 1, args), LAMBDA a :
    Ok([name |-> a.name,
        coord |-> a.coord,
        type |-> None,
        bind |-> None,
        scope |-> None,
        model |-> None,
        gen_location |-> None]))

ID_children(self) ==
  Collect(<<>>)

ID_iter(self) ==
  None

Print_init(args) ==
  Then(Bind(Params("Print"), 1, args), LAMBDA a :
    Ok([expression |-> a.expression,
        coord |-> a.coord]))

Print_children(self) ==
  Collect(<<ForEnumerateAppendNotNone("expression", self.f.expression)>>)

Print_iter(self) ==
  Generator(Collect(<<ForYield(self.f.expression)>>))

Read_init(args) ==
  Then(Bind(Params("Read"), 1, args), LAMBDA a :
    Ok([expression |-> a.expression,
        coord |-> a.coord]))

Read_children(self) ==
  Collect(<<ForEnumerateAppend("expression", self.f.expression)>>)

Read_iter(self) ==
  Generator(Collect(<<ForYield(self.f.expression)>>))

If_init(args) ==
  Then(Bind(Params("If"), 3, args), LAMBDA a :
    Ok([cond |-> a.cond,
        true |-> a.true,
        false |-> a.false,
        coord |-> a.coord]))

If_children(self) ==
  Collect(<<IfNotNoneAppend("cond", self.f.cond),
            IfNotNoneAppend("true", self.f.true),
            IfNotNoneAppend("false", self.f.false)>>)

If_iter(self) ==
  Generator(Collect(<<IfNotNoneYield(self.f.cond),
                      IfNotNoneYield(self.f.true),
                      IfNotNoneYield(self.f.false)>>))

\* The method of the object's class
__init__(k, args) ==
  CASE k = "Program" -> Program_init(args)
    [] k = "Constant" -> Constant_init(args)
    [] k = "Cast" -> Cast_init(args)
    [] k = "Type" -> Type_init(args)
    [] k = "GlobalDecl" -> GlobalDecl_init(args)
    [] k = "FuncDecl" -> FuncDecl_init(args)
    [] k = "FuncDef" -> FuncDef_init(args)
    [] k = "FuncCall" -> FuncCall_init(args)
    [] k = "VarDecl" -> VarDecl_init(args)
    [] k = "Decl" -> Decl_init(args)
    [] k = "PtrDecl" -> PtrDecl_init(args)
    [] k = "ArrayRef" -> ArrayRef_init(args)
    [] k = "ArrayDecl" -> ArrayDecl_init(args)
    [] k = "DeclList" -> DeclList_init(args)
    [] k = "InitList" -> InitList_init(args)
    [] k = "ExprList" -> ExprList_init(args)
    [] k = "ParamList" -> ParamList_init(args)
    [] k = "UnaryOp" -> UnaryOp_init(args)
    [] k = "BinaryOp" -> BinaryOp_init(args)
    [] k = "Assignment" -> Assignment_init(args)
    [] k = "Compound" -> Compound_init(args)
    [] k = "EmptyStatement" -> EmptyStatement_init(args)
    [] k = "Break" -> Break_init(args)
    [] k = "Assert" -> Assert_init(args)
    [] k = "For" -> For_init(args)
    [] k = "While" -> While_init(args)
    [] k = "Return" -> Return_init(args)
    [] k = "ID" -> ID_init(args)
    [] k = "Print" -> Print_init(args)
    [] k = "Read" -> Read_init(args)
    [] k = "If" -> If_init(args)

\* The method of the object's class
children(self) ==
  CASE self.kind = "Program" -> Program_children(self)
    [] self.kind = "Constant" -> Constant_children(self)
    [] self.kind = "Cast" -> Cast_children(self)
    [] self.kind = "Type" -> Type_children(self)
    [] self.kind = "GlobalDecl" -> GlobalDecl_children(self)
    [] self.kind = "FuncDecl" -> FuncDecl_children(self)
    [] self.kind = "FuncDef" -> FuncDef_children(self)
    [] self.kind = "FuncCall" -> FuncCall_children(self)
    [] self.kind = "VarDecl" -> VarDecl_children(self)
    [] self.kind = "Decl" -> Decl_children(self)
    [] self.kind = "PtrDecl" -> PtrDecl_children(self)
    [] self.kind = "ArrayRef" -> ArrayRef_children(self)
    [] self.kind = "ArrayDecl" -> ArrayDecl_children(self)
    [] self.kind = "DeclList" -> DeclList_children(self)
    [] self.kind = "InitList" -> InitList_children(self)
    [] self.kind = "ExprList" -> ExprList_children(self)
    [] self.kind = "ParamList" -> ParamList_children(self)
    [] self.kind = "UnaryOp" -> UnaryOp_children(self)
    [] self.kind = "BinaryOp" -> BinaryOp_children(self)
    [] self.kind = "Assignment" -> Assignment_children(self)
    [] self.kind = "Compound" -> Compound_children(self)
    [] self.kind = "EmptyStatement" -> EmptyStatement_children(self)
    [] self.kind = "Break" -> Break_children(self)
    [] self.kind = "Assert" -> Assert_children(self)
    [] self.kind = "For" -> For_children(self)
    [] self.kind = "While" -> While_children(self)
    [] self.kind = "Return" -> Return_children(self)
    [] self.kind = "ID" -> ID_children(self)
    [] self.kind = "Print" -> Print_children(self)
    [] self.kind = "Read" -> Read_children(self)
    [] self.kind = "If" -> If_children(self)

\* The method of the object's class
__iter__(self) ==
  CASE self.kind = "Program" -> Program_iter(self)
    [] self.kind = "Constant" -> Constant_iter(self)
    [] self.kind = "Cast" -> Cast_iter(self)
    [] self.kind = "Type" -> Type_iter(self)
    [] self.kind = "GlobalDecl" -> GlobalDecl_iter(self)
    [] self.kind = "FuncDecl" -> FuncDecl_iter(self)
    [] self.kind = "FuncDef" -> FuncDef_iter(self)
    [] self.kind = "FuncCall" -> FuncCall_iter(self)
    [] self.kind = "VarDecl" -> VarDecl_iter(self)
    [] self.kind = "Decl" -> Decl_iter(self)
    [] self.kind = "PtrDecl" -> PtrDecl_iter(self)
    [] self.kind = "ArrayRef" -> ArrayRef_iter(self)
    [] self.kind = "ArrayDecl" -> ArrayDecl_iter(self)
    [] self.kind = "DeclList" -> DeclList_iter(self)
    [] self.kind = "InitList" -> InitList_iter(self)
    [] self.kind = "ExprList" -> ExprList_iter(self)
    [] self.kind = "ParamList" -> ParamList_iter(self)
    [] self.kind = "UnaryOp" -> UnaryOp_iter(self)
    [] self.kind = "BinaryOp" -> BinaryOp_iter(self)
    [] self.kind = "Assignment" -> Assignment_iter(self)
    [] self.kind = "Compound" -> Compound_iter(self)
    [] self.kind = "EmptyStatement" -> EmptyStatement_iter(self)
    [] self.kind = "Break" -> Break_iter(self)
    [] self.kind = "Assert" -> Assert_iter(self)
    [] self.kind = "For" -> For_iter(self)
    [] self.kind = "While" -> While_iter(self)
    [] self.kind = "Return" -> Return_iter(self)
    [] self.kind = "ID" -> ID_iter(self)
    [] self.kind = "Print" -> Print_iter(self)
    [] self.kind = "Read" -> Read_iter(self)
    [] self.kind = "If" -> If_iter(self)

----------------------------------------------------------------------------
(* Objects: iteration, slots, Coord *)

\* iter(obj), consumed to the end: a list gives its elements, a str its characters;
\* an object with __iter__ gives what the generator yields, and TypeError when
\* __iter__ returned something that is no iterator; anything else is not iterable.
iter(v) ==
  CASE v.t = "list" -> Ok(v.e)
    [] v.t = "str" -> Ok([i \in 1..Len(v.s) |-> Str(<<v.s[i]>>)])
    [] v.t = "node" -> Consume(__iter__(v))
    [] OTHER -> Raise("TypeError")

RECURSIVE Join(_)
Join(chars) == IF chars = <<>> THEN "" ELSE Head(chars) \o Join(Tail(chars))

\* The attribute names a class reserves: Node has __slots__ = (), so an instance has
\* no __dict__ and holds exactly the slots its class declares.
SlotNames(k) ==
  LET s == __slots__(k)
  IN IF s.t = "tuple" THEN {s.e[i] : i \in DOMAIN s.e} ELSE {Join(s.s)}

\* self.__slots__[:-1], as the for loop of __repr__ sees it: the names of a tuple
\* but its last, the characters of a string but its last
SlotsButLast(k) ==
  LET s == __slots__(k)
  IN IF s.t = "tuple" THEN SubSeq(s.e, 1, Len(s.e) - 1) ELSE SubSeq(s.s, 1, Len(s.s) - 1)

getattr(self, name) ==
  IF name \in DOMAIN self.f THEN Ok(self.f[name]) ELSE Raise("AttributeError")

\* self.name = v from outside the class: the object after the write
setattr(self, name, v) ==
  IF name \in SlotNames(self.kind)
  THEN Ok([self EXCEPT !.f = [n \in (DOMAIN self.f) \cup {name} |->
                                IF n = name THEN v ELSE self.f[n]]])
  ELSE Raise("AttributeError")

\* Kind(args): a new object whose slots __init__ fills
New(k, args) ==
  Then(__init__(k, args), LAMBDA f :
    IF DOMAIN f \subseteq SlotNames(k)
    THEN Ok([t |-> "node", kind |-> k, f |-> f])
    ELSE Raise("AttributeError"))

Coord(args) ==
  Then(Bind(<<"line", "column">>, 1, args), LAMBDA a :
    Ok([t |-> "Coord", line |-> a.line, column |-> a.column]))

----------------------------------------------------------------------------
(* Text: a sequence of lines, each a sequence of pieces (strings without a   *)
(* line break); a text without a line break is one line, '' is one empty line *)

T(line) == <<line>>
Empty == <<<<>>>>
NL == <<<<>>, <<>>>>

\* a + b
Cat(a, b) == SubSeq(a, 1, Len(a) - 1) \o <<a[Len(a)] \o b[1]>> \o Tail(b)

RECURSIVE CatAll(_)
CatAll(texts) == IF texts = <<>> THEN Empty ELSE Cat(Head(texts), CatAll(Tail(texts)))

\* ' ' * n, as a string
RECURSIVE Spaces(_)
Spaces(n) == IF n = 0 THEN "" ELSE " " \o Spaces(n - 1)

\* text.replace('\n', '\n' + ' ' * n)
replace(text, n) ==
  [i \in DOMAIN text |-> IF i = 1 THEN text[i] ELSE <<Spaces(n)>> \o text[i]]

\* sep.join(generator): the items are computed in order and the first that raises
\* ends the join
RECURSIVE join(_, _)
join(sep, rs) ==
  IF rs = <<>> THEN Ok(Empty)
  ELSE IF Len(rs) = 1 THEN Head(rs)
  ELSE Then(Head(rs), LAMBDA h :
         Then(join(sep, Tail(rs)), LAMBDA t : Ok(CatAll(<<h, sep, t>>))))

\* The characters of a text in one string
RECURSIVE FlatLine(_)
FlatLine(line) == IF line = <<>> THEN "" ELSE Head(line) \o FlatLine(Tail(line))

RECURSIVE Flat(_)
Flat(text) ==
  IF Len(text) = 1 THEN FlatLine(text[1])
  ELSE FlatLine(text[1]) \o "\n" \o Flat(Tail(text))

RECURSIVE repr(_)
RECURSIVE str(_)
RECURSIVE _repr(_)
RECURSIVE ReprFields(_, _, _)

\* One pass of the loop of __repr__ for each name left
ReprFields(self, names, first) ==
  IF names = <<>> THEN Ok(Empty)
  ELSE Then(getattr(self, Head(names)), LAMBDA g :
         Then(_repr(g), LAMBDA r :
           Then(ReprFields(self, Tail(names), FALSE), LAMBDA rest :
             Ok(CatAll(<<IF first THEN Empty ELSE T(<<",">>),
                         IF first THEN Empty
                         ELSE Cat(NL, T(<<Spaces(1 + Len(self.kind))>>)),
                         T(<<Head(names), "=">>),
                         replace(r, 2 + Len(Head(names)) + Len(self.kind)),
                         rest>>)))))

Node_repr(self) ==
  Then(ReprFields(self, SlotsButLast(self.kind), TRUE), LAMBDA fields :
    Ok(CatAll(<<T(<<self.kind, "(">>), fields, T(<<")">>)>>)))

\* Coord.__str__
Coord_str(self) ==
  IF bool(self.line)
  THEN Then(str(self.line), LAMBDA l :
         Then(str(self.column), LAMBDA c :
           Ok(CatAll(<<T(<<"   @ ">>), l, T(<<":">>), c>>))))
  ELSE Ok(Empty)

\* repr(obj): a Node formats itself, a Coord has the default <... object at ...>
repr(v) ==
  CASE v.t = "node" -> Node_repr(v)
    [] v.t = "str" -> Ok(T(<<"'">> \o v.s \o <<"'">>))
    [] v.t = "int" -> Ok(T(<<IntStr(v.i)>>))
    [] v.t = "None" -> Ok(T(<<"None">>))
    [] v.t = "Coord" -> Ok(T(<<"<Coord object>">>))
    [] v.t = "list" -> Then(join(T(<<", ">>), [i \in DOMAIN v.e |-> repr(v.e[i])]),
                            LAMBDA j : Ok(CatAll(<<T(<<"[">>), j, T(<<"]">>)>>)))

\* '%s' % obj
str(v) ==
  CASE v.t = "str" -> Ok(T(v.s))
    [] v.t = "Coord" -> Coord_str(v)
    [] OTHER -> repr(v)

\* _repr without the line break before the closing bracket
_repr_flat(obj) ==
  IF obj.t = "list"
  THEN Then(join(Cat(T(<<",">>), replace(NL, 1)),
                 [i \in DOMAIN obj.e |->
                    Then(_repr(obj.e[i]), LAMBDA r : Ok(replace(r, 1)))]),
            LAMBDA j : Ok(CatAll(<<T(<<"[">>), j, T(<<"]">>)>>)))
  ELSE repr(obj)

_repr(obj) ==
  IF obj.t = "list"
  THEN Then(join(Cat(T(<<",">>), replace(NL, 1)),
                 [i \in DOMAIN obj.e |->
                    Then(_repr(obj.e[i]), LAMBDA r : Ok(replace(r, 1)))]),
            LAMBDA j : Ok(CatAll(<<T(<<"[">>), j, NL, T(<<"]">>)>>)))
  ELSE repr(obj)

\* The attributes show() formats: (name, value) for each name of attr_names, those
\* with value None left out when attrnames is set
RECURSIVE AttrList(_, _, _)
AttrList(self, names, attrnames) ==
  IF names = <<>> THEN Ok(<<>>)
  ELSE Then(getattr(self, Head(names)), LAMBDA g :
         Then(AttrList(self, Tail(names), attrnames), LAMBDA rest :
           IF attrnames /\ g = None THEN Ok(rest)
           ELSE Ok(<<[name |-> Head(names), value |-> g]>> \o rest)))

\* attrstr of show()
attrstr(self, attrnames) ==
  Then(AttrList(self, attr_names(self.kind), attrnames), LAMBDA l :
    join(T(<<", ">>),
         [i \in DOMAIN l |->
            Then(str(l[i].value), LAMBDA s :
              IF attrnames THEN Ok(Cat(T(<<l[i].name, "=">>), s)) ELSE Ok(s))]))

\* show() writes to buf as it goes: an exception leaves in buf what was written
\* before it
Written(buf, r, F(_)) == IF Raised(r) THEN [exc |-> r.exc, v |-> buf] ELSE F(r.v)

\* What show() has written to buf, and the exception that ended it, if any.
\* _my_node_name is <<>> for None and <<name>> for a name.
RECURSIVE show(_, _, _, _, _, _)
RECURSIVE ShowChildren(_, _, _, _, _, _)

\* A child's show() writes to the same buf
Appended(buf, s, F(_)) ==
  IF Raised(s) THEN [exc |-> s.exc, v |-> Cat(buf, s.v)] ELSE F(Cat(buf, s.v))

\* The loop over self.children(), after the node's own line; only a Node has show
ShowChildren(buf, pairs, offset, attrnames, nodenames, showcoord) ==
  IF pairs = <<>> THEN [exc |-> "none", v |-> buf]
  ELSE IF Head(pairs).child.t # "node" THEN [exc |-> "AttributeError", v |-> buf]
  ELSE Appended(buf,
                show(Head(pairs).child, offset + 4, attrnames, nodenames, showcoord,
                     <<Head(pairs).name>>),
                LAMBDA b : ShowChildren(b, Tail(pairs), offset, attrnames, nodenames,
                                        showcoord))

\* The node's own line: header, attributes, coordinate
ShowLine(self, head, attrnames, showcoord, F(_)) ==
  Written(head,
          IF attr_names(self.kind) # <<>> THEN attrstr(self, attrnames) ELSE Ok(Empty),
          LAMBDA attrs :
            Written(Cat(head, attrs),
                    IF showcoord /\ bool(self.f.coord) THEN str(self.f.coord)
                    ELSE Ok(Empty),
                    LAMBDA coord : F(CatAll(<<head, attrs, coord, NL>>))))

show(self, offset, attrnames, nodenames, showcoord, _my_node_name) ==
  ShowLine(self,
           IF nodenames /\ _my_node_name # <<>>
           THEN T(<<Spaces(offset), self.kind, " <", _my_node_name[1], ">: ">>)
           ELSE T(<<Spaces(offset), self.kind, ": ">>),
           attrnames, showcoord,
           LAMBDA line :
             Written(line, children(self), LAMBDA kids :
               ShowChildren(line, kids, offset, attrnames, nodenames, showcoord)))

----------------------------------------------------------------------------
(* The state machine: a caller builds one node, inspects it, annotates it and  *)
(* lets it go.  The caller makes one call at a time: op is the call whose      *)
(* outcome it holds in result, and "idle" once it has gone on.                 *)

\* Annotation writes a node takes before it is let go
MaxWrites == 1

\* The longest parameter list of a constructor (FuncDef, For)
MaxArgs == 5

\* The fields the later passes write
Annotations == {"type", "gen_location", "bind", "scope", "model"}
AnnotationValues == {Str(<<"t">>)}

\* Subtrees the caller has built before, bottom-up, and hands to a constructor
Leaf == New("ID", <<Str(<<"x">>)>>).v
Tree == New("Return", <<Leaf>>).v
EmptyGlobal == New("GlobalDecl", <<List(<<>>)>>).v
\* print(x) as a statement: a Print holding its one expression
Printed == New("Print", <<Leaf>>).v

AttrArgs == {None, Str(<<"x">>)}
NodeArgs == {None, Leaf, Tree, Printed}
ListArgs ==
  {None, List(<<>>), List(<<Leaf>>), List(<<Leaf, None>>),
   List(<<EmptyGlobal, EmptyGlobal>>), Leaf}
CoordArgs ==
  {None, Str(<<"1", "0", ":", "7">>), Coord(<<PyInt(10), PyInt(7)>>).v, Coord(<<PyInt(0)>>).v}

ArgValues(k, p) ==
  CASE Use(k)[p] = "attr" -> AttrArgs
    [] Use(k)[p] = "node" -> NodeArgs
    [] Use(k)[p] = "list" -> ListArgs
    [] Use(k)[p] = "coord" -> CoordArgs

\* The calls Kind(a1, ..., an) with n positional arguments
RECURSIVE Calls(_, _)
Calls(k, n) ==
  IF n = 0 THEN {<<>>}
  ELSE IF n > Len(Params(k)) THEN {}
  ELSE {Append(a, x) : a \in Calls(k, n - 1), x \in ArgValues(k, Params(k)[n])}

NoOutcome == [exc |-> "none", v |-> <<>>]
Idle == [name |-> "idle"]

Init ==
  /\ node = None
  /\ op = Idle
  /\ result = NoOutcome
  /\ writes = 0

\* Every call the caller makes: a class and its positional arguments, the trailing
\* ones left out or not
AllCalls ==
  UNION {{[kind |-> k, args |-> a] : a \in Calls(k, n)} :
           k \in Kinds, n \in 0..MaxArgs}

\* node = Kind(args); a constructor that raises leaves no node
Construct ==
  /\ op = Idle
  /\ node = None
  /\ \E c \in AllCalls :
       LET r == New(c.kind, c.args)
       IN /\ node' = IF Raised(r) THEN None ELSE r.v
          /\ result' = [exc |-> r.exc, v |-> <<>>]
          /\ op' = [name |-> "construct", kind |-> c.kind, args |-> c.args]
  /\ writes' = 0

\* node.children()
Children ==
  /\ op = Idle
  /\ node # None
  /\ result' = children(node)
  /\ op' = [name |-> "children"]
  /\ UNCHANGED <<node, writes>>

\* list(node)
Iterate ==
  /\ op = Idle
  /\ node # None
  /\ result' = iter(node)
  /\ op' = [name |-> "iter"]
  /\ UNCHANGED <<node, writes>>

\* repr(node)
Repr ==
  /\ op = Idle
  /\ node # None
  /\ result' = repr(node)
  /\ op' = [name |-> "repr"]
  /\ UNCHANGED <<node, writes>>

\* node.show(buf, attrnames=..., nodenames=..., showcoord=...)
Show(attrnames, nodenames, showcoord) ==
  /\ op = Idle
  /\ node # None
  /\ result' = show(node, 0, attrnames, nodenames, showcoord, <<>>)
  /\ op' = [name |-> "show", attrnames |-> attrnames, nodenames |-> nodenames,
            showcoord |-> showcoord]
  /\ UNCHANGED <<node, writes>>

\* node.field = v, by a later pass
SetAttr(field, v) ==
  /\ op = Idle
  /\ node # None
  /\ writes < MaxWrites
  /\ LET r == setattr(node, field, v)
     IN /\ node' = IF Raised(r) THEN node ELSE r.v
        /\ result' = [exc |-> r.exc, v |-> <<>>]
        /\ writes' = IF Raised(r) THEN writes ELSE writes + 1
  /\ op' = [name |-> "setattr", field |-> field, value |-> v]

\* node.field
GetAttr(field) ==
  /\ op = Idle
  /\ node # None
  /\ result' = getattr(node, field)
  /\ op' = [name |-> "getattr", field |-> field]
  /\ UNCHANGED <<node, writes>>

\* The node goes out of scope
Discard ==
  /\ op = Idle
  /\ node # None
  /\ node' = None
  /\ writes' = 0
  /\ UNCHANGED <<op, result>>

\* The caller has looked at the outcome and goes on
Continue ==
  /\ op # Idle
  /\ op' = Idle
  /\ result' = NoOutcome
  /\ UNCHANGED <<node, writes>>

Next ==
  \/ Construct
  \/ Children
  \/ Iterate
  \/ Repr
  \/ \E attrnames \in BOOLEAN, nodenames \in BOOLEAN, showcoord \in BOOLEAN :
       Show(attrnames, nodenames, showcoord)
  \/ \E field \in Annotations : \E v \in AnnotationValues : SetAttr(field, v)
  \/ \E field \in Annotations : GetAttr(field)
  \/ Discard
  \/ Continue

Spec == Init /\ [][Next]_vars

----------------------------------------------------------------------------
(* Properties *)

\* The constructor's structural fields: its parameters but the coordinate
StructuralFields(k) == SelectSeq(Params(k), LAMBDA p : p # "coord")

\* The fields children() enumerates hold a list of nodes or nothing
ListsOfNodes(self) ==
  \A i \in DOMAIN Params(self.kind) :
    LET p == Params(self.kind)[i]
    IN Use(self.kind)[p] = "list" =>
         \/ self.f[p] = None
         \/ /\ self.f[p].t = "list"
            /\ \A j \in DOMAIN self.f[p].e : self.f[p].e[j].t = "node"

\* The fields children() enumerates hold a list or nothing
ListsOrNone(self) ==
  \A i \in DOMAIN Params(self.kind) :
    LET p == Params(self.kind)[i]
    IN Use(self.kind)[p] = "list" => self.f[p].t \in {"list", "None"}

\* The non-absent children in the order the fields are declared, a list-valued
\* field expanded in place, element by element
RECURSIVE DeclaredChildren(_, _)
DeclaredChildren(self, fields) ==
  IF fields = <<>> THEN <<>>
  ELSE LET p == Head(fields)
           v == self.f[p]
           u == Use(self.kind)[p]
           here == IF u = "node" /\ v # None THEN <<[name |-> p, child |-> v]>>
                   ELSE IF u = "list" /\ v.t = "list"
                   THEN SelectSeq([j \in DOMAIN v.e |->
                                     [name |-> p \o "[" \o IntStr(j - 1) \o "]",
                                      child |-> v.e[j]]],
                                  LAMBDA c : c.child # None)
                   ELSE <<>>
       IN here \o DeclaredChildren(self, Tail(fields))

\* C1: children() returns exactly the non-absent children as (field-name, child)
\* pairs in the declared field order, list-valued fields expanded in element order
\* (FuncDef: spec, decl, param_decls[0..n-1], body).
C1_ChildrenInDeclaredOrder ==
  (op.name = "children" /\ ListsOfNodes(node))
    => result = Ok(DeclaredChildren(node, StructuralFields(node.kind)))

\* C2: iterating a node yields exactly the child values of children(), in the same
\* order and without an absent marker; leaf kinds yield the empty sequence.
C2_IterationMatchesChildren ==
  (op.name = "iter" /\ ListsOrNone(node))
    => /\ ~Raised(result)
       /\ ~Raised(children(node))
       /\ result.v = [i \in DOMAIN children(node).v |-> children(node).v[i].child]

\* The node is built as the constructors are meant to be called: list-valued fields
\* hold lists of nodes, but for Print, which may hold one expression node
WellBuilt(self) ==
  \/ ListsOfNodes(self)
  \/ self.kind = "Print" /\ self.f.expression.t = "node"

\* C3: on a constructed node none of children(), iteration, __repr__ and show()
\* (in any mode) raises.
C3_TraversalAndPrintingNeverFail ==
  (op.name \in {"children", "iter", "repr", "show"} /\ WellBuilt(node))
    => ~Raised(result)

\* The field names __repr__ lists for the node itself: the first line holds
\* Kind(name=..., every later field starts a line indented by len(Kind) + 1
TopNames(text, cls) ==
  LET rest == SelectSeq(Tail(text),
                        LAMBDA l : Len(l) >= 3 /\ l[1] = Spaces(1 + Len(cls)) /\ l[3] = "=")
  IN (IF Len(text[1]) >= 4 THEN <<text[1][3]>> ELSE <<>>)
     \o [i \in DOMAIN rest |-> rest[i][2]]

\* C4: __repr__ lists exactly the constructor's fields other than coord, in
\* declared order: coord never appears and no other field is dropped.
C4_ReprListsFieldsButCoord ==
  (op.name = "repr" /\ ~Raised(result))
    => TopNames(result.v, node.kind) = StructuralFields(node.kind)

\* The lines of a text, each in one string
Lines(text) == [i \in DOMAIN text |-> FlatLine(text[i])]

\* '[' + elements joined by ',\n ' + '\n]', each element reindented by one space,
\* line by line: the first line opens with '[', every other line of an element
\* with one space, an element but the last ends in ',', and ']' has a line of its
\* own
RECURSIVE BracketedLines(_, _)
BracketedLines(elems, i) ==
  IF i > Len(elems) THEN <<"]">>
  ELSE [j \in DOMAIN elems[i] |->
          (IF i = 1 /\ j = 1 THEN "[" ELSE " ") \o elems[i][j]
          \o (IF j = Len(elems[i]) /\ i < Len(elems) THEN "," ELSE "")]
       \o BracketedLines(elems, i + 1)

ListLines(l) ==
  IF l.e = <<>> THEN <<"[", "]">>
  ELSE BracketedLines([i \in DOMAIN l.e |-> Lines(repr(l.e[i]).v)], 1)

\* Kind(field=<lines>) for a kind whose one structural field is the list
OneFieldLines(cls, field, lines) ==
  [j \in DOMAIN lines |->
     (IF j = 1 THEN cls \o "(" \o field \o "="
      ELSE Spaces(2 + Len(field) + Len(cls)))
     \o lines[j] \o (IF j = Len(lines) THEN ")" ELSE "")]

\* The kinds whose slots are one list-valued field and the coordinate
OneListKinds ==
  {k \in Kinds : /\ __slots__(k) = [t |-> "tuple", e |-> <<Params(k)[1], "coord">>]
                 /\ Use(k)[Params(k)[1]] = "list"}

TwoEmptyGlobals == List(<<EmptyGlobal, EmptyGlobal>>)

\* C5 as stated: a Program of two GlobalDecl with empty decls formats to exactly
\* Program(gdecls=[GlobalDecl(decls=[]),\n GlobalDecl(decls=[])\n]).
C5_ProgramLiteralAsStated ==
  (op.name = "repr" /\ node.kind = "Program" /\ node.f.gdecls = TwoEmptyGlobals)
    => /\ ~Raised(result)
       /\ Flat(result.v) = "Program(gdecls=[GlobalDecl(decls=[]),\n GlobalDecl(decls=[])\n])"

\* C5, amended: a sequence-valued field is rendered as '[' + elements joined by
\* ',\n ' + '\n]' with each element reindented by one space (so an empty sequence
\* is '[', line break, ']'), continuation lines aligned under the field, and the
\* Program of two GlobalDecl with empty decls formats to the text below, which
\* breaks the line inside each empty list and lists symtab.
C5_SequenceRendering ==
  /\ (op.name = "repr" /\ node.kind \in OneListKinds
      /\ node.f[Params(node.kind)[1]].t = "list" /\ ~Raised(result))
       => Lines(result.v)
            = OneFieldLines(node.kind, Params(node.kind)[1],
                            ListLines(node.f[Params(node.kind)[1]]))
  /\ (op.name = "repr" /\ node.kind = "Program" /\ node.f.gdecls = TwoEmptyGlobals)
       => /\ ~Raised(result)
          /\ Flat(result.v)
               = "Program(gdecls=[GlobalDecl(decls=[\n"
                 \o Spaces(33) \o "]),\n"
                 \o Spaces(16) \o "GlobalDecl(decls=[\n"
                 \o Spaces(33) \o "])\n"
                 \o Spaces(15) \o "],\n"
                 \o Spaces(8) \o "symtab=None)"

\* C5 witness: the two-globals Program has been formatted, and so has a node
\* holding a non-empty list
C5_Witness ==
  /\ op.name = "repr"
  /\ node.kind = "Program"
  /\ node.f.gdecls = TwoEmptyGlobals
  /\ ~Raised(result)

\* C6: a Compound built with a Coord of line 10 and column 7 is built, and its
\* coordinate keeps the line and has column 1; so for any Coord supplied.
C6_CompoundNormalizesCoord ==
  (op.name = "construct" /\ op.kind = "Compound" /\ Len(op.args) = 2
   /\ op.args[2].t = "Coord")
    => /\ ~Raised(result)
       /\ node # None
       /\ node.f.coord.t = "Coord"
       /\ node.f.coord.line = op.args[2].line
       /\ node.f.coord.column = PyInt(1)

\* C7: every constructor can be called with the structural fields only; the node
\* is built and its coord is None.
C7_CoordOptional ==
  (op.name = "construct" /\ Len(op.args) = Len(StructuralFields(op.kind)))
    => /\ ~Raised(result)
       /\ node # None
       /\ node.f.coord = None

\* The attribute values are plain: a str or None
PlainAttrs(self) ==
  \A i \in DOMAIN attr_names(self.kind) :
    self.f[attr_names(self.kind)[i]].t \in {"str", "None"}

\* The attribute summary the line should hold: one entry per attribute that is not
\* None, in attr_names order, name=value or the bare value, joined by ', '
RECURSIVE AttrSummary(_, _, _, _)
AttrSummary(self, names, attrnames, sep) ==
  IF names = <<>> THEN ""
  ELSE LET v == self.f[Head(names)]
       IN IF v = None THEN AttrSummary(self, Tail(names), attrnames, sep)
          ELSE sep \o (IF attrnames THEN Head(names) \o "=" ELSE "") \o Join(v.s)
               \o AttrSummary(self, Tail(names), attrnames, ", ")

\* C8: the line show() writes for a node lists one entry per attribute of
\* attr_names that is not None, in order, and none for an attribute that is None,
\* with attrnames and without.
C8_AttrSummarySkipsAbsent ==
  (op.name = "show" /\ ~op.showcoord /\ PlainAttrs(node) /\ ~Raised(result))
    => FlatLine(result.v[1])
         = node.kind \o ": " \o AttrSummary(node, attr_names(node.kind), op.attrnames, "")

\* The expression and declaration-bearing kinds
AnnotatedKinds ==
  {"Constant", "ID", "BinaryOp", "UnaryOp", "Assignment", "Cast", "FuncCall",
   "ArrayRef", "InitList", "ExprList", "Decl", "VarDecl"}

\* C9: each expression or declaration-bearing kind takes a write to type and to
\* gen_location, ID and ArrayRef also to bind, scope and model; the write does not
\* raise and the field then holds the value written.
C9_AnnotationWritesAccepted ==
  (/\ op.name = "setattr"
   /\ node.kind \in AnnotatedKinds
   /\ \/ op.field \in {"type", "gen_location"}
      \/ node.kind \in {"ID", "ArrayRef"} /\ op.field \in {"bind", "scope", "model"})
    => /\ ~Raised(result)
       /\ getattr(node, op.field) = Ok(op.value)

\* C10 as stated: right after construction every annotation field the kind has
\* is None, Constant.type among them.
C10_AnnotationsEmptyAsStated ==
  (op.name = "construct" /\ ~Raised(result))
    => \A f \in Annotations \cap SlotNames(node.kind) : getattr(node, f) = Ok(None)

\* The parameters of the constructor, as a set
ParamSet(k) == {Params(k)[i] : i \in DOMAIN Params(k)}

\* C10, amended: every annotation field the kind has that is not a parameter of
\* its constructor is None after construction and stays None until an annotation
\* write; a type that is a constructor parameter (Constant, FuncDecl, VarDecl,
\* Decl, PtrDecl, ArrayDecl) holds the argument passed.
C10_AnnotationsEmptyUntilWritten ==
  /\ (node # None /\ writes = 0)
       => \A f \in (Annotations \cap SlotNames(node.kind)) \ ParamSet(node.kind) :
            getattr(node, f) = Ok(None)
  /\ (op.name = "construct" /\ ~Raised(result))
       => \A i \in DOMAIN op.args :
            Params(op.kind)[i] \in Annotations
              => getattr(node, Params(op.kind)[i]) = Ok(op.args[i])

\* C10 witness: an ID, which has all five annotation fields, has been built and
\* inspected and not yet annotated
C10_Witness ==
  /\ node # None
  /\ node.kind = "ID"
  /\ op.name = "show"
  /\ writes = 0
  /\ \A f \in Annotations : getattr(node, f) = Ok(None)

\* The argument the call gives for parameter i, None when it leaves it out
Passed(i) == IF i <= Len(op.args) THEN op.args[i] ELSE None

\* C12: Program's constructor takes a symtab and does not store it: whatever is
\* passed as symtab, the Program built has symtab None, and gdecls and coord hold
\* the values passed.
C12_ProgramDropsSymtab ==
  (op.name = "construct" /\ op.kind = "Program" /\ ~Raised(result))
    => /\ node # None
       /\ getattr(node, "symtab") = Ok(None)
       /\ getattr(node, "gdecls") = Ok(Passed(1))
       /\ getattr(node, "coord") = Ok(Passed(3))

\* C12 witness: a Program has been built from a symtab that is not None, a
\* gdecls list and a coordinate
C12_Witness ==
  /\ op.name = "construct"
  /\ op.kind = "Program"
  /\ ~Raised(result)
  /\ Len(op.args) = 3
  /\ op.args[1].t = "list"
  /\ op.args[2] # None
  /\ op.args[3] # None
  /\ node.f.symtab = None

\* The nodes of the tree under self that children() reaches, depth first and in
\* pre-order, siblings in children() order, each with its depth; a children()
\* that raises reaches nothing
RECURSIVE PreOrder(_, _)
RECURSIVE PreOrderAll(_, _)
PreOrder(self, d) ==
  <<[kind |-> self.kind, depth |-> d]>>
  \o (IF Raised(children(self)) THEN <<>> ELSE PreOrderAll(children(self).v, d + 1))

PreOrderAll(pairs, d) ==
  IF pairs = <<>> THEN <<>>
  ELSE (IF Head(pairs).child.t = "node" THEN PreOrder(Head(pairs).child, d) ELSE <<>>)
       \o PreOrderAll(Tail(pairs), d)

\* Every child children() reaches in the tree under self is a node
RECURSIVE NodesOnly(_)
NodesOnly(self) ==
  \/ Raised(children(self))
  \/ \A i \in DOMAIN children(self).v :
       /\ children(self).v[i].child.t = "node"
       /\ NodesOnly(children(self).v[i].child)

\* The lines show() has written: the text up to its last line break
WrittenLines(text) == SubSeq(text, 1, Len(text) - 1)

\* C11: show() called on a root with offset 0 writes one line for every node of
\* the tree that children() reaches, in depth-first pre-order with siblings in
\* children() order, and the line of a node at depth d starts with exactly 4*d
\* spaces followed by the kind name.
C11_OneLinePerNodeIndented ==
  (op.name = "show" /\ NodesOnly(node))
    => LET lines == WrittenLines(result.v)
           nodes == PreOrder(node, 0)
       IN /\ Len(lines) = Len(nodes)
          /\ \A i \in DOMAIN lines :
               /\ lines[i][1] = Spaces(4 * nodes[i].depth)
               /\ lines[i][2] = nodes[i].kind

====
